---- MODULE Spec2Model ----
(***************************************************************************)
(* Model of the STL-to-video rendering pipeline: the job store             *)
(* (database/db_manager.py) and the orchestrator (main.py), with the       *)
(* external renderer, the compositor and the filesystem as environment     *)
(* inputs.                                                                 *)
(*                                                                         *)
(* Ids are positions in the two tables: both tables use INTEGER PRIMARY    *)
(* KEY AUTOINCREMENT and no row is ever deleted, so the n-th inserted row  *)
(* has id n.  A nullable column holds None (SQL NULL / Python None) or     *)
(* Some(v).                                                                *)
(***************************************************************************)
EXTENDS Integers, Sequences, FiniteSets, TLC

VARIABLES
    files,      \* table stl_files, in id order
    jobs,       \* table render_jobs, in id order
    now,        \* the database clock (CURRENT_TIMESTAMP, one-second ticks)
    pc,         \* position of the orchestrator process
    cmd,        \* the CLI command being executed
    limit,      \* process_queue: limit
    todo,       \* scan_stl_directory: files of the glob not yet registered
    found,      \* the files the glob of the running command has seen
    queue,      \* process_queue: rows of pending_files not yet iterated
    batch,      \* process_queue: pending_files as fetched at line 204
    attempted,  \* paths render_single_file was called with, in the current command
    cur,        \* render_single_file: stl_path
    job_id,     \* render_single_file: local job_id (None while not in locals())
    err,        \* render_single_file: the exception being handled, str(e)
    raisedAt,   \* render_single_file: the step that raised it
    stages,     \* render_single_file: collaborator steps that returned success, in order
    result,     \* render_single_file: the value returned
    success_count, \* process_queue: success_count
    disk,       \* video and script files on disk: name -> content ("" = no such file)
    exit_code,  \* main: the argument of sys.exit (None while main has not called it)
    total_frames, \* animate_camera_orbit: total_frames (0 while no orbit is planned)
    opc,        \* animate_camera_orbit: the keyframe to insert next
    rotation,   \* animate_camera_orbit: (x_rotation, y_rotation, z_rotation), in degrees
    keyframes,  \* OrbitEmpty's rotation_euler keyframes: frame -> rotation
    stats,      \* what the last get_statistics() returned (None before any call)
    cpc,        \* the ColorGenerator method being called ("none": no call)
    cin,        \* its argument and the values its random draws return
    cout        \* the value it returned

storeVars == <<files, jobs, now>>
procVars  == <<pc, cmd, limit, todo, found, queue, batch, attempted, cur, job_id, err, raisedAt,
               stages, result, success_count, disk, exit_code>>
orbitVars == <<total_frames, opc, rotation, keyframes>>
\* Variables of the computations looked at on their own
colorVars == <<cpc, cin, cout>>
pureVars  == <<total_frames, opc, rotation, keyframes, stats, cpc, cin, cout>>
vars      == <<files, jobs, now, pc, cmd, limit, todo, found, queue, batch, attempted, cur,
               job_id, err, raisedAt, stages, result, success_count, disk, exit_code,
               total_frames, opc, rotation, keyframes, stats, cpc, cin, cout>>

-----------------------------------------------------------------------------
(* Bounds and input sets *)

\* Jobs created in a run of the pipeline / by direct calls of the store
MaxJobs == 2
MaxStoreJobs == 3
\* Seconds the database clock advances
MaxTime == 1

None == <<>>
Some(v) == <<v>>

Stems == {"a", "b"}
\* Paths of .stl files: the directory and the stem of the file name.
Paths == {[dir |-> "d1", stem |-> "a"], [dir |-> "d2", stem |-> "a"],
          [dir |-> "d1", stem |-> "b"]}
Sizes == {10, 20}
Durations == {4, 8}
\* (object_rgb, background_rgb) pairs a job is created with, channels in
\* thousandths: get_color_palette for hue 1/12, saturation 4/9, value 0.9
Palettes == {[object_rgb |-> <<900, 700, 500>>, background_rgb |-> <<117, 133, 150>>]}
Limits == {-1, 0, 1, 2}

\* Path.name and Path.stem of an .stl path
Name(path) == path.stem \o ".stl"
Stem(path) == path.stem

Min(a, b) == IF a <= b THEN a ELSE b

-----------------------------------------------------------------------------
(* The job store: database/db_manager.py *)

\* A stl_files row whose status column has no default
NewFileNoDefault(path, size, t) ==
    [filename |-> Name(path), filepath |-> path, added_date |-> t,
     file_size |-> size, status |-> "NULL"]

\* CREATE TABLE defaults: a new stl_files row
NewFile(path, size, t) ==
    [filename |-> Name(path), filepath |-> path, added_date |-> t,
     file_size |-> size, status |-> "pending"]

\* CREATE TABLE defaults: a new render_jobs row
NewJob(stl_file_id, object_color, background_color) ==
    [stl_file_id |-> stl_file_id, output_path |-> None,
     object_color |-> object_color, background_color |-> background_color,
     render_date |-> None, render_duration |-> None, status |-> "pending",
     error_message |-> None]

HasName(fs, name) == \E i \in 1..Len(fs) : fs[i].filename = name

\* SELECT id FROM stl_files WHERE filename = ?  (fetchone: the first match or None)
SelectIdByName(fs, name) ==
    IF HasName(fs, name)
    THEN Some(CHOOSE i \in 1..Len(fs) :
                 /\ fs[i].filename = name
                 /\ \A k \in 1..Len(fs) : fs[k].filename = name => i <= k)
    ELSE None

\* INSERT OR REPLACE: what add_stl_file would do without the IGNORE
InsertOrReplaceFile(fs, path, size, t) ==
    IF HasName(fs, Name(path))
    THEN [i \in 1..Len(fs) |->
            IF fs[i].filename = Name(path) THEN NewFile(path, size, t) ELSE fs[i]]
    ELSE Append(fs, NewFile(path, size, t))

\* A plain INSERT with no uniqueness on filename
InsertFileAlways(fs, path, size, t) == Append(fs, NewFile(path, size, t))

\* INSERT OR IGNORE INTO stl_files: filename is UNIQUE, so a row with a known
\* filename is ignored
InsertOrIgnoreFile(fs, path, size, t) ==
    IF HasName(fs, Name(path)) THEN fs ELSE Append(fs, NewFile(path, size, t))

\* An add_stl_file that queues a known file again
AddStlFileRequeue(fs, path, size, t) ==
    LET gs == InsertOrIgnoreFile(fs, path, size, t)
    IN  [i \in 1..Len(gs) |->
            IF gs[i].filename = Name(path) THEN [gs[i] EXCEPT !.status = "pending"]
            ELSE gs[i]]

\* add_stl_file: the table after the call (stat() succeeded with `size`)
AddStlFile(fs, path, size, t) == InsertOrIgnoreFile(fs, path, size, t)

\* add_stl_file: the id it returns, read from the table after the insert
AddStlFileId(fs, path, size, t) ==
    SelectIdByName(AddStlFile(fs, path, size, t), Name(path))

\* An add_stl_file that inserts the row before it looks at the file
AddStlFileInsertFirst(fs, path, readable, size, t) ==
    [raised |-> IF readable THEN None ELSE Some("FileNotFoundError"),
     files  |-> AddStlFile(fs, path, IF readable THEN size ELSE 0, t)]

\* add_stl_file(filepath) as a call: filepath.stat() (line 55) comes before the
\* INSERT and raises for a path that cannot be read; nothing in add_stl_file
\* catches it, and nothing has been written by then
AddStlFileCall(fs, path, readable, size, t) ==
    IF readable
    THEN [raised |-> None, files |-> AddStlFile(fs, path, size, t)]
    ELSE [raised |-> Some("FileNotFoundError"), files |-> fs]

\* A create_render_job that gives the file's pending job a new row in place of
\* an added one
CreateOrReuseJob(js, stl_file_id, object_color, background_color) ==
    IF \E j \in 1..Len(js) : js[j].stl_file_id = stl_file_id /\ js[j].status = "pending"
    THEN js
    ELSE Append(js, NewJob(stl_file_id, object_color, background_color))

\* create_render_job: the table after the call; cursor.lastrowid is its length
CreateRenderJob(js, stl_file_id, object_color, background_color) ==
    Append(js, NewJob(stl_file_id, object_color, background_color))

\* An update that writes the whole row again (INSERT OR REPLACE) and so loses
\* the columns it is not given
UpdateJobRowReplace(js, id, status, output_path, render_duration, error_message) ==
    [j \in 1..Len(js) |->
        IF j = id
        THEN [NewJob(js[j].stl_file_id, None, None)
                 EXCEPT !.status = status,
                        !.output_path = output_path,
                        !.render_date = Some("CURRENT_TIMESTAMP"),
                        !.render_duration = render_duration,
                        !.error_message = error_message]
        ELSE js[j]]

\* The first UPDATE of update_render_job: all four columns are overwritten
UpdateJobRow(js, id, status, output_path, render_duration, error_message) ==
    [j \in 1..Len(js) |->
        IF j = id
        THEN [js[j] EXCEPT !.status = status,
                           !.output_path = output_path,
                           !.render_date = Some("CURRENT_TIMESTAMP"),
                           !.render_duration = render_duration,
                           !.error_message = error_message]
        ELSE js[j]]

\* A cascade that also writes 'pending' back when the job failed
CascadeAnyStatus(fs, js, id, status) ==
    [i \in 1..Len(fs) |->
        IF \E j \in 1..Len(js) : j = id /\ js[j].stl_file_id = i
        THEN [fs[i] EXCEPT !.status = IF status = "completed" THEN "completed"
                                       ELSE "pending"]
        ELSE fs[i]]

\* No cascade at all
CascadeNever(fs, js, id, status) == fs

\* The second UPDATE of update_render_job: only when status = 'completed', the
\* row of stl_files the job refers to becomes 'completed'
CascadeFileStatus(fs, js, id, status) ==
    IF status = "completed"
    THEN [i \in 1..Len(fs) |->
            IF \E j \in 1..Len(js) : j = id /\ js[j].stl_file_id = i
            THEN [fs[i] EXCEPT !.status = "completed"]
            ELSE fs[i]]
    ELSE fs

\* Sequences over S without repetition that hold every element of S
RECURSIVE Orderings(_)
Orderings(S) ==
    IF S = {} THEN {<<>>}
    ELSE UNION {{<<x>> \o s : s \in Orderings(S \ {x})} : x \in S}

\* The same SELECT without its WHERE clause
AllFileOrders(fs) ==
    {s \in Orderings(1..Len(fs)) :
        \A m, n \in 1..Len(s) : m < n => fs[s[m]].added_date <= fs[s[n]].added_date}

\* SELECT * FROM stl_files WHERE status = 'pending' ORDER BY added_date ASC:
\* the row orders SQL allows (rows with equal added_date come in any order)
PendingOrders(fs) ==
    LET P == {i \in 1..Len(fs) : fs[i].status = "pending"}
    IN  {s \in Orderings(P) :
            \A m, n \in 1..Len(s) : m < n => fs[s[m]].added_date <= fs[s[n]].added_date}

\* get_pending_files: `if limit:` appends LIMIT only for a limit that is neither
\* None nor 0; SQLite reads a negative LIMIT as no limit
ApplyLimit(s, lim) ==
    IF lim = None \/ lim = Some(0) THEN s
    ELSE IF lim[1] < 0 THEN s
    ELSE SubSeq(s, 1, Min(lim[1], Len(s)))

\* get_pending_files(limit): the ids of the rows returned, for one allowed order
GetPendingFiles(fs, lim) == {ApplyLimit(s, lim) : s \in PendingOrders(fs)}

\* get_statistics: the three counts and the durations AVG is taken over
CountStatus(fs, st) == Cardinality({i \in 1..Len(fs) : fs[i].status = st})
\* AVG(render_duration) with no WHERE status = 'completed'
AllJobIds(js) == 1..Len(js)
CompletedJobIds(js) == {j \in 1..Len(js) : js[j].status = "completed"}

\* SUM(render_duration) over the rows `ids` whose duration is not NULL
RECURSIVE SumDurations(_, _)
SumDurations(js, ids) ==
    IF ids = {} THEN 0
    ELSE LET j == CHOOSE k \in ids : TRUE
         IN  (IF js[j].render_duration = None THEN 0 ELSE js[j].render_duration[1])
             + SumDurations(js, ids \ {j})

\* round(n / d, 2) in hundredths, for n >= 0 and d > 0 (ties go to the even digit)
RoundHundredths(n, d) ==
    LET q == (100 * n) \div d
        r == (100 * n) % d
    IN  IF 2 * r > d \/ (2 * r = d /\ q % 2 = 1) THEN q + 1 ELSE q

\* get_statistics: AVG(render_duration) over completed jobs skips NULLs; a NULL
\* average (no row) reads as 0.  average_render_time is given in hundredths.
GetStatistics(fs, js) ==
    LET C == {j \in CompletedJobIds(js) : js[j].render_duration /= None}
    IN  [total_files |-> Len(fs),
         completed_files |-> CountStatus(fs, "completed"),
         pending_files |-> CountStatus(fs, "pending"),
         average_render_time |->
            IF C = {} THEN 0 ELSE RoundHundredths(SumDurations(js, C), Cardinality(C))]

-----------------------------------------------------------------------------
(* Initial state: an empty database (init_database on a new models.db), no    *)
(* video or script file on disk, the process not started.                     *)

VideoNames == {s \o ".mp4" : s \in Stems} \cup {s \o "_temp.mp4" : s \in Stems}
ScriptName == "temp_render_script.py"
NoPath == [dir |-> "", stem |-> ""]

\* init_database on a new models.db: both tables empty
StoreInit ==
    /\ files = <<>>
    /\ jobs = <<>>
    /\ now = 0

\* No command is running
ProcInit ==
    /\ pc = "idle"
    /\ cmd = "none"
    /\ limit = None
    /\ todo = <<>>
    /\ found = {}
    /\ queue = <<>>
    /\ batch = <<>>
    /\ attempted = <<>>
    /\ cur = NoPath
    /\ job_id = None
    /\ err = None
    /\ raisedAt = "none"
    /\ stages = <<>>
    /\ result = None
    /\ success_count = 0
    /\ disk = [n \in VideoNames \cup {ScriptName} |-> ""]
    /\ exit_code = None

\* No orbit is being planned
NoOrbit ==
    /\ total_frames = 0
    /\ opc = "none"
    /\ rotation = <<0, 0, 0>>
    /\ keyframes = <<>>

\* No method of ColorGenerator is being called
NoColor ==
    /\ cpc = "none"
    /\ cin = None
    /\ cout = None

Init ==
    /\ StoreInit
    /\ ProcInit
    /\ NoOrbit
    /\ stats = None
    /\ NoColor

\* One second passes on the database clock.
Tick ==
    /\ now < MaxTime
    /\ now' = now + 1
    /\ UNCHANGED <<files, jobs>>
    /\ UNCHANGED procVars
    /\ UNCHANGED pureVars

-----------------------------------------------------------------------------
(* The store called directly, with any arguments: one call per step *)

\* add_stl_file(path) for a readable path whose stat() gives `size`
ApiAddStlFile ==
    \E path \in Paths, size \in Sizes :
        /\ files' = AddStlFile(files, path, size, now)
        /\ UNCHANGED <<jobs, now>>
        /\ UNCHANGED procVars
        /\ UNCHANGED pureVars

\* create_render_job(stl_file_id, object_color, background_color)
ApiCreateRenderJob ==
    \E fid \in 1..Len(files), pal \in Palettes :
        /\ Len(jobs) < MaxStoreJobs
        /\ jobs' = CreateRenderJob(jobs, fid, pal.object_rgb, pal.background_rgb)
        /\ UNCHANGED <<files, now>>
        /\ UNCHANGED procVars
        /\ UNCHANGED pureVars

\* The argument lists update_render_job is called with (main.py:137-142, 160-164)
UpdateArgs ==
    {[status |-> "completed", output_path |-> Some("out.mp4"),
      render_duration |-> Some(d), error_message |-> None] : d \in Durations}
    \cup {[status |-> "failed", output_path |-> None, render_duration |-> None,
           error_message |-> Some("error")]}

\* update_render_job: both UPDATEs, committed together
UpdateRenderJobJobs(js, id, a) ==
    UpdateJobRow(js, id, a.status, a.output_path, a.render_duration, a.error_message)
UpdateRenderJobFiles(fs, js, id, a) ==
    CascadeFileStatus(fs, UpdateRenderJobJobs(js, id, a), id, a.status)

\* update_render_job: the exception it raises.  An UPDATE ... WHERE id = ? that
\* matches no row is not an error in SQLite and cursor.rowcount is not looked
\* at, so there is none, whatever the id
UpdateRenderJobError(js, id) == None

\* update_render_job(job_id, status, ...), for a known or an unknown job_id
ApiUpdateRenderJob ==
    \E id \in 1..(Len(jobs) + 1), a \in UpdateArgs :
        /\ jobs' = UpdateRenderJobJobs(jobs, id, a)
        /\ files' = UpdateRenderJobFiles(files, jobs, id, a)
        /\ UNCHANGED now
        /\ UNCHANGED procVars
        /\ UNCHANGED pureVars

StoreNext ==
    \/ ApiAddStlFile
    \/ ApiCreateRenderJob
    \/ ApiUpdateRenderJob

StoreSpec == Init /\ [][StoreNext]_vars

-----------------------------------------------------------------------------
(* The orchestrator: main.py.  The process is single-threaded; pc is the    *)
(* statement it is at.  What the filesystem, Blender and ffmpeg answer is   *)
(* an input of the step that asks.                                          *)

\* filepath.stat().st_size of the files the pipeline finds on disk
StatSize(path) == IF path.dir = "d1" THEN 10 ELSE 20

TempVideo(path)   == Stem(path) \o "_temp.mp4"
OutputVideo(path) == Stem(path) \o ".mp4"

\* The steps of render_single_file that come after create_render_job
StepsAfterCreate == {"setup", "rendering", "compositing", "audio", "cleanup", "post"}

\* Locals of a finished command are dropped
ResetLocals ==
    /\ cmd' = "none"
    /\ limit' = None
    /\ todo' = <<>>
    /\ found' = {}
    /\ queue' = <<>>
    /\ batch' = <<>>
    /\ attempted' = <<>>
    /\ cur' = NoPath
    /\ job_id' = None
    /\ err' = None
    /\ raisedAt' = "none"
    /\ stages' = <<>>
    /\ result' = None
    /\ success_count' = 0

\* An exception e with str(e) = text leaves the try block at `step`
Raise(step, text) ==
    /\ err' = Some(text)
    /\ raisedAt' = step
    /\ pc' = "except"

\* list(STL_DIR.glob('**/*.stl')): some of the paths, in some order
GlobResults == UNION {Orderings(S) : S \in SUBSET Paths}

\* Rows process_queue(lim) would fetch now (the same number in every order)
FetchCount(fs, lim) == Len(CHOOSE r \in GetPendingFiles(fs, lim) : TRUE)

\* main: `scan` and `all` (and no argument) start with scan_stl_directory
CmdScan ==
    /\ pc = "idle"
    /\ \E c \in {"scan", "all"}, glob \in GlobResults :
        /\ c = "all" => Len(jobs) + Cardinality(Stems) <= MaxJobs
        /\ cmd' = c
        /\ todo' = glob
        /\ found' = {glob[k] : k \in 1..Len(glob)}
    /\ pc' = "scan"
    /\ UNCHANGED <<files, jobs, now, limit, queue, batch, attempted, cur, job_id, err,
                   raisedAt, stages, result, success_count, disk>>
    /\ UNCHANGED pureVars
    /\ UNCHANGED exit_code

\* scan_stl_directory, one iteration of the for loop (lines 35-38)
ScanStep ==
    /\ pc = "scan"
    /\ todo /= <<>>
    /\ files' = AddStlFile(files, Head(todo), StatSize(Head(todo)), now)
    /\ todo' = Tail(todo)
    /\ UNCHANGED <<jobs, now, pc, cmd, limit, found, queue, batch, attempted, cur, job_id, err,
                   raisedAt, stages, result, success_count, disk>>
    /\ UNCHANGED pureVars
    /\ UNCHANGED exit_code

\* scan_stl_directory returns; process_all goes on with process_queue(), which
\* is all that cmd says from then on
ScanDone ==
    /\ pc = "scan"
    /\ todo = <<>>
    /\ IF cmd = "all"
       THEN /\ pc' = "fetch"
            /\ cmd' = "process"
            /\ UNCHANGED <<limit, todo, found, queue, batch, attempted, cur, job_id, err,
                           raisedAt, stages, result, success_count>>
       ELSE /\ pc' = "idle"
            /\ ResetLocals
    /\ UNCHANGED <<files, jobs, now, disk>>
    /\ UNCHANGED pureVars
    /\ UNCHANGED exit_code

\* main: `process [limit]`
CmdProcess ==
    /\ pc = "idle"
    /\ \E lim \in {None} \cup {Some(n) : n \in Limits} :
        /\ Len(jobs) + FetchCount(files, lim) <= MaxJobs
        /\ limit' = lim
    /\ cmd' = "process"
    /\ pc' = "fetch"
    /\ UNCHANGED <<files, jobs, now, todo, found, queue, batch, attempted, cur, job_id, err,
                   raisedAt, stages, result, success_count, disk>>
    /\ UNCHANGED pureVars
    /\ UNCHANGED exit_code

\* process_queue, lines 204-212: fetch the pending rows, return if there are none
\* (limit is not read again and is dropped)
Fetch ==
    /\ pc = "fetch"
    /\ \E r \in GetPendingFiles(files, limit) :
        IF r = <<>>
        THEN /\ pc' = "idle"
             /\ ResetLocals
        ELSE /\ batch' = [k \in 1..Len(r) |-> files[r[k]].filepath]
             /\ queue' = batch'
             /\ success_count' = 0
             /\ limit' = None
             /\ pc' = "loop"
             /\ UNCHANGED <<cmd, todo, found, attempted, cur, job_id, err, raisedAt,
                            stages, result>>
    /\ UNCHANGED <<files, jobs, now, disk>>
    /\ UNCHANGED pureVars
    /\ UNCHANGED exit_code

\* process_queue, line 213-215: the next row of pending_files, or the end of the loop
Loop ==
    /\ pc = "loop"
    /\ IF queue /= <<>>
       THEN /\ cur' = Head(queue)
            /\ queue' = Tail(queue)
            /\ pc' = "start"
       ELSE /\ pc' = "report"
            /\ UNCHANGED <<cur, queue>>
    /\ UNCHANGED <<files, jobs, now, cmd, limit, todo, found, batch, attempted, job_id, err,
                   raisedAt, stages, result, success_count, disk>>
    /\ UNCHANGED pureVars
    /\ UNCHANGED exit_code

\* process_queue, lines 219-223: the counts and get_statistics, then main ends
Report ==
    /\ pc = "report"
    /\ pc' = "idle"
    /\ ResetLocals
    /\ UNCHANGED <<files, jobs, now, disk>>
    /\ UNCHANGED pureVars
    /\ UNCHANGED exit_code

\* main: `render <path>`, lines 252-263, for a path that exists
CmdRender ==
    /\ pc = "idle"
    /\ Len(jobs) < MaxJobs
    /\ \E path \in Paths : cur' = path
    /\ cmd' = "render"
    /\ pc' = "start"
    /\ UNCHANGED <<files, jobs, now, limit, todo, found, queue, batch, attempted, job_id, err,
                   raisedAt, stages, result, success_count, disk>>
    /\ UNCHANGED pureVars
    /\ UNCHANGED exit_code

\* render_single_file, lines 52-68: the palette, add_stl_file (whose stat() raises
\* for a file that is gone) and create_render_job.  main has checked that the
\* path of `render <path>` exists, and a file the glob of this run has seen is
\* there; a file registered by an earlier run may have been removed since.
Start ==
    /\ pc = "start"
    /\ attempted' = Append(attempted, cur)
    /\ stages' = <<>>
    /\ result' = None
    /\ \E readable \in BOOLEAN :
        /\ (cmd = "render" \/ cur \in found) => readable
        /\ LET call == AddStlFileCall(files, cur, readable, StatSize(cur), now)
           IN  /\ files' = call.files
               /\ IF call.raised = None
                  THEN \E pal \in Palettes :
                        /\ jobs' = CreateRenderJob(jobs,
                                        AddStlFileId(files, cur, StatSize(cur), now)[1],
                                        pal.object_rgb, pal.background_rgb)
                        /\ job_id' = Some(Len(jobs'))
                        /\ err' = None
                        /\ raisedAt' = "none"
                        /\ pc' = "setup"
                  ELSE /\ job_id' = None
                       /\ Raise("register", call.raised[1])
                       /\ UNCHANGED jobs
    /\ UNCHANGED <<now, cmd, limit, todo, found, queue, batch, cur, success_count, disk>>
    /\ UNCHANGED pureVars
    /\ UNCHANGED exit_code

\* lines 70-88: the render directory, the Blender script, the temporary script
\* file; any of them may raise OSError
Setup ==
    /\ pc = "setup"
    /\ \E ok \in BOOLEAN :
        IF ok
        THEN /\ disk' = [disk EXCEPT ![ScriptName] = "script"]
             /\ pc' = "rendering"
             /\ UNCHANGED <<err, raisedAt>>
        ELSE /\ Raise("setup", "OSError")
             /\ UNCHANGED disk
    /\ UNCHANGED <<files, jobs, now, cmd, limit, todo, found, queue, batch, attempted, cur,
                   job_id, stages, result, success_count>>
    /\ UNCHANGED pureVars
    /\ UNCHANGED exit_code

\* What Blender answers: a return code, or no answer within 3600 s
RenderOutcomes == {"0", "1", "timeout"}

\* A render whose return code is not looked at
RenderNextUnchecked(outcome) == IF outcome = "timeout" THEN "except" ELSE "compositing"

\* lines 99-109: subprocess.run raises TimeoutExpired; a non-zero return code
\* raises RuntimeError; otherwise the frames are there
RenderNext(outcome) == IF outcome = "0" THEN "compositing" ELSE "except"

RenderError(outcome) ==
    IF outcome = "timeout" THEN "TimeoutExpired" ELSE "Blender render failed: stderr"

Render ==
    /\ pc = "rendering"
    /\ \E outcome \in RenderOutcomes :
        IF RenderNext(outcome) = "except"
        THEN /\ Raise("rendering", RenderError(outcome))
             /\ UNCHANGED stages
        ELSE /\ pc' = RenderNext(outcome)
             /\ stages' = Append(stages, IF outcome = "0" THEN "rendered"
                                         ELSE "render failed")
             /\ UNCHANGED <<err, raisedAt>>
    /\ UNCHANGED <<files, jobs, now, cmd, limit, todo, found, queue, batch, attempted, cur,
                   job_id, result, success_count, disk>>
    /\ UNCHANGED pureVars
    /\ UNCHANGED exit_code

\* lines 111-120: create_video_from_frames writes the temporary video or raises
Composite ==
    /\ pc = "compositing"
    /\ \E ok \in BOOLEAN :
        IF ok
        THEN /\ disk' = [disk EXCEPT ![TempVideo(cur)] = "video"]
             /\ stages' = Append(stages, "composited")
             /\ pc' = "audio"
             /\ UNCHANGED <<err, raisedAt>>
        ELSE /\ Raise("compositing", "ffmpeg.Error")
             /\ UNCHANGED <<disk, stages>>
    /\ UNCHANGED <<files, jobs, now, cmd, limit, todo, found, queue, batch, attempted, cur,
                   job_id, result, success_count>>
    /\ UNCHANGED pureVars
    /\ UNCHANGED exit_code

\* An add_random_audio that writes nothing when there is no audio file
AddRandomAudioMuxOnly(d, path, hasAudio) ==
    IF hasAudio
    THEN [d EXCEPT ![OutputVideo(path)] = d[TempVideo(path)] \o "+audio"]
    ELSE d

\* add_random_audio, on success: a copy of the video when the audio directory
\* holds no .mp3/.wav/.m4a file, else the video with one of them muxed in
AddRandomAudio(d, path, hasAudio) ==
    [d EXCEPT ![OutputVideo(path)] =
        IF hasAudio THEN d[TempVideo(path)] \o "+audio" ELSE d[TempVideo(path)]]

\* add_random_audio as a call: shutil.copy (no audio file) or ffmpeg.run may
\* raise, which the two handlers at lines 122-127 log and raise again
AddRandomAudioCall(d, path, hasAudio, ok) ==
    IF ok
    THEN [raised |-> None, disk |-> AddRandomAudio(d, path, hasAudio)]
    ELSE [raised |-> Some(IF hasAudio THEN "ffmpeg.Error" ELSE "OSError"), disk |-> d]

\* lines 122-128: add_random_audio writes the output video or raises
Audio ==
    /\ pc = "audio"
    /\ \E hasAudio \in BOOLEAN, ok \in BOOLEAN :
        LET call == AddRandomAudioCall(disk, cur, hasAudio, ok)
        IN  /\ disk' = call.disk
            /\ IF call.raised = None
               THEN /\ stages' = Append(stages, "audio added")
                    /\ pc' = "cleanup"
                    /\ UNCHANGED <<err, raisedAt>>
               ELSE /\ Raise("audio", call.raised[1])
                    /\ UNCHANGED stages
    /\ UNCHANGED <<files, jobs, now, cmd, limit, todo, found, queue, batch, attempted, cur,
                   job_id, result, success_count>>
    /\ UNCHANGED pureVars
    /\ UNCHANGED exit_code

\* A cleanup that leaves the temporary video
KeepTempVideo(d, path) == d

\* lines 131-132: the temporary video is unlinked if it exists
RemoveTempVideo(d, path) == [d EXCEPT ![TempVideo(path)] = ""]

Cleanup ==
    /\ pc = "cleanup"
    /\ \E ok \in BOOLEAN :
        /\ disk[TempVideo(cur)] = "" => ok
        /\ IF ok
           THEN /\ disk' = RemoveTempVideo(disk, cur)
                /\ pc' = "persist"
                /\ UNCHANGED <<err, raisedAt>>
           ELSE /\ Raise("cleanup", "OSError")
                /\ UNCHANGED disk
    /\ UNCHANGED <<files, jobs, now, cmd, limit, todo, found, queue, batch, attempted, cur,
                   job_id, stages, result, success_count>>
    /\ UNCHANGED pureVars
    /\ UNCHANGED exit_code

\* The arguments of the update_render_job call at lines 137-142
CompletedArgs(path, d) ==
    [status |-> "completed", output_path |-> Some(OutputVideo(path)),
     render_duration |-> Some(d), error_message |-> None]

\* A handler that records the message and leaves the job pending
FailedArgsMessageOnly(text) ==
    [status |-> "pending", output_path |-> None, render_duration |-> None,
     error_message |-> text]

\* The arguments of the update_render_job call at lines 160-164
FailedArgs(text) ==
    [status |-> "failed", output_path |-> None, render_duration |-> None,
     error_message |-> text]

\* lines 135-142: the job is persisted as completed, with the elapsed time
Persist ==
    /\ pc = "persist"
    /\ \E d \in Durations :
        /\ jobs' = UpdateRenderJobJobs(jobs, job_id[1], CompletedArgs(cur, d))
        /\ files' = UpdateRenderJobFiles(files, jobs, job_id[1], CompletedArgs(cur, d))
    /\ pc' = "post"
    /\ UNCHANGED <<now, cmd, limit, todo, found, queue, batch, attempted, cur, job_id, err,
                   raisedAt, stages, result, success_count, disk>>
    /\ UNCHANGED pureVars
    /\ UNCHANGED exit_code

\* A cleanup that leaves the temporary script
KeepScript(d) == d

\* line 147: temp_script.unlink()
RemoveScript(d) == [d EXCEPT ![ScriptName] = ""]

\* lines 144-153: the temporary script is unlinked (which may raise) and the
\* output path is returned
Post ==
    /\ pc = "post"
    /\ \E ok \in BOOLEAN :
        IF ok
        THEN /\ disk' = RemoveScript(disk)
             /\ result' = Some(OutputVideo(cur))
             /\ pc' = "ret"
             /\ UNCHANGED <<err, raisedAt>>
        ELSE /\ Raise("post", "OSError")
             /\ UNCHANGED <<disk, result>>
    /\ UNCHANGED <<files, jobs, now, cmd, limit, todo, found, queue, batch, attempted, cur,
                   job_id, stages, success_count>>
    /\ UNCHANGED pureVars
    /\ UNCHANGED exit_code

\* A handler that takes the newest job when it has none of its own
HandlerJobOrNewest(jid, js) == IF jid = None /\ js /= <<>> THEN Some(Len(js)) ELSE jid

\* A handler that records nothing
HandlerJobNever(jid, js) == None

\* line 159: the job the handler writes to, if 'job_id' is in locals()
HandlerJob(jid, js) == jid

\* lines 155-166: every Exception is caught; the job, if there is one, is
\* persisted as failed with str(e); None is returned
Except ==
    /\ pc = "except"
    /\ LET target == HandlerJob(job_id, jobs)
       IN  IF target /= None
           THEN /\ jobs' = UpdateRenderJobJobs(jobs, target[1], FailedArgs(err))
                /\ files' = UpdateRenderJobFiles(files, jobs, target[1], FailedArgs(err))
           ELSE UNCHANGED <<files, jobs>>
    /\ result' = None
    /\ pc' = "ret"
    /\ UNCHANGED <<now, cmd, limit, todo, found, queue, batch, attempted, cur, job_id, err,
                   raisedAt, stages, success_count, disk>>
    /\ UNCHANGED pureVars
    /\ UNCHANGED exit_code

\* A loop that stops at the first file that failed
NextAfterReturnBreak(command, res) ==
    IF command = "render" THEN "idle" ELSE IF res = None THEN "report" ELSE "loop"

\* Where render_single_file returns to: main (line 263) or the for loop of
\* process_queue (lines 215-217), whatever it returned
NextAfterReturn(command, res) == IF command = "render" THEN "idle" ELSE "loop"

Return ==
    /\ pc = "ret"
    /\ pc' = NextAfterReturn(cmd, result)
    /\ IF pc' = "idle"
       THEN ResetLocals
       ELSE /\ success_count' = IF result /= None THEN success_count + 1
                                ELSE success_count
            /\ UNCHANGED <<cmd, limit, todo, found, queue, batch, attempted, cur, job_id, err,
                           raisedAt, stages, result>>
    /\ UNCHANGED <<files, jobs, now, disk>>
    /\ UNCHANGED pureVars
    /\ UNCHANGED exit_code

\* A path of the command line that names no file
MissingPath == [dir |-> "d3", stem |-> "c"]

\* stl_path.exists(), line 259, when the command starts
Exists(path) == path \in Paths

\* A main that does not look whether the file of `render <path>` is there
MainNoExistsCheck(argv) ==
    IF argv = <<>> THEN [next |-> "scan", code |-> None]
    ELSE IF argv[1] = "scan" THEN [next |-> "scan", code |-> None]
    ELSE IF argv[1] = "process" THEN [next |-> "fetch", code |-> None]
    ELSE IF argv[1] = "render"
         THEN IF Len(argv) < 2 THEN [next |-> "exit", code |-> Some(1)]
              ELSE [next |-> "start", code |-> None]
    ELSE IF argv[1] = "all" THEN [next |-> "scan", code |-> None]
    ELSE [next |-> "exit", code |-> Some(1)]

\* main, lines 240-275, for argv = sys.argv[1:]: where the command goes on, or
\* the sys.exit it ends with
Main(argv) ==
    IF argv = <<>> THEN [next |-> "scan", code |-> None]
    ELSE IF argv[1] = "scan" THEN [next |-> "scan", code |-> None]
    ELSE IF argv[1] = "process" THEN [next |-> "fetch", code |-> None]
    ELSE IF argv[1] = "render"
         THEN IF Len(argv) < 2 THEN [next |-> "exit", code |-> Some(1)]
              ELSE IF ~Exists(argv[2]) THEN [next |-> "exit", code |-> Some(1)]
              ELSE [next |-> "start", code |-> None]
    ELSE IF argv[1] = "all" THEN [next |-> "scan", code |-> None]
    ELSE [next |-> "exit", code |-> Some(1)]

\* Command lines main does not run: a word that is no command, `render` alone,
\* `render` of a path that is not there
RejectedArgvs == {<<"bogus">>, <<"render">>, <<"render", MissingPath>>}

\* main for one of those command lines (lines 252-261 and 270-273)
CmdExit ==
    /\ pc = "idle"
    /\ \E argv \in RejectedArgvs :
        /\ cmd' = argv[1]
        /\ cur' = IF Len(argv) > 1 THEN argv[2] ELSE NoPath
        /\ pc' = Main(argv).next
        /\ exit_code' = Main(argv).code
    /\ UNCHANGED <<files, jobs, now, limit, todo, found, queue, batch, attempted, job_id, err,
                   raisedAt, stages, result, success_count, disk>>
    /\ UNCHANGED pureVars

\* The process has ended with that status; the next command is a new process
Exited ==
    /\ pc = "exit"
    /\ pc' = "idle"
    /\ exit_code' = None
    /\ ResetLocals
    /\ UNCHANGED <<files, jobs, now, disk>>
    /\ UNCHANGED pureVars

Next ==
    \/ CmdScan
    \/ ScanStep
    \/ ScanDone
    \/ CmdProcess
    \/ Fetch
    \/ Loop
    \/ Report
    \/ CmdRender
    \/ Start
    \/ Setup
    \/ Render
    \/ Composite
    \/ Audio
    \/ Cleanup
    \/ Persist
    \/ Post
    \/ Except
    \/ Return
    \/ CmdExit
    \/ Exited

Spec == Init /\ [][Next]_vars

-----------------------------------------------------------------------------
(* The orbit planner: BlenderRenderer.animate_camera_orbit, one keyframe per  *)
(* step.  Angles are written in degrees: math.radians(d) is d here, and the   *)
(* running sums are sums of 60.  The camera has been set up (OrbitEmpty is    *)
(* there).                                                                    *)

\* Frame counts the planner is called with, besides the two of the repository
MaxFrames == 24
\* config.py TOTAL_FRAMES (VIDEO_DURATION * FPS) and the default of
\* render_model_animation
FrameCounts == (1..MaxFrames) \cup {5 * 10, 750}

num_segments == 6
rotation_amount == 60

\* total_frames // num_segments rounded up instead of down
FramesPerSegmentCeil(n) == (n + num_segments - 1) \div num_segments

\* total_frames / num_segments rounded to the nearest integer
FramesPerSegmentRound(n) == (2 * n + num_segments) \div (2 * num_segments)

\* frames_per_segment = total_frames // num_segments
FramesPerSegment(n) == n \div num_segments

\* The axes segment k adds rotation_amount to, as (x, y, z) factors
SegmentAxes ==
    << <<0, 0, 1>>, <<1, 0, 1>>, <<1, 0, 0>>, <<1, 1, 0>>, <<0, 1, 0>>, <<0, 1, 1>> >>

\* x_rotation, y_rotation, z_rotation after segment k's `+= rotation_amount`
Advance(rot, k) == [a \in 1..3 |-> rot[a] + SegmentAxes[k][a] * rotation_amount]

\* x_rotation = y_rotation = z_rotation = math.radians(360)
FullTurn == <<360, 360, 360>>

\* A keyframe_insert that leaves a keyframe already at that frame as it is
KeyframeInsertKeep(kf, frame, rot) ==
    IF frame \in DOMAIN kf THEN kf ELSE (frame :> rot) @@ kf

\* empty.rotation_euler = rot; empty.keyframe_insert("rotation_euler", frame):
\* a keyframe already at that frame is replaced
KeyframeInsert(kf, frame, rot) ==
    [f \in DOMAIN kf \cup {frame} |-> IF f = frame THEN rot ELSE kf[f]]

\* The planner is called for some total_frames
OrbitInit ==
    /\ StoreInit
    /\ ProcInit
    /\ total_frames \in FrameCounts
    /\ opc = "start"
    /\ rotation = <<0, 0, 0>>
    /\ keyframes = <<>>
    /\ stats = None
    /\ NoColor

\* SEGMENT 0 (lines 232-241): the start position at frame 1
OrbitStartKeyframe ==
    /\ opc = "start"
    /\ rotation' = <<0, 0, 0>>
    /\ keyframes' = KeyframeInsert(keyframes, 1, rotation')
    /\ opc' = "segment 1"
    /\ UNCHANGED <<total_frames, stats, storeVars, procVars, colorVars>>

\* SEGMENT k, k = 1..6 (lines 243-299): frame k * frames_per_segment holds the
\* running sums
OrbitSegmentKeyframe ==
    \E k \in 1..num_segments :
        /\ opc = "segment " \o ToString(k)
        /\ rotation' = Advance(rotation, k)
        /\ keyframes' = KeyframeInsert(keyframes, FramesPerSegment(total_frames) * k,
                                       rotation')
        /\ opc' = IF k < num_segments THEN "segment " \o ToString(k + 1) ELSE "final"
        /\ UNCHANGED <<total_frames, stats, storeVars, procVars, colorVars>>

\* FINAL POSITION (lines 301-311): frame total_frames holds the full turn
OrbitFinalKeyframe ==
    /\ opc = "final"
    /\ rotation' = FullTurn
    /\ keyframes' = KeyframeInsert(keyframes, total_frames, rotation')
    /\ opc' = "done"
    /\ UNCHANGED <<total_frames, stats, storeVars, procVars, colorVars>>

OrbitNext ==
    \/ OrbitStartKeyframe
    \/ OrbitSegmentKeyframe
    \/ OrbitFinalKeyframe

OrbitSpec == OrbitInit /\ [][OrbitNext]_vars

-----------------------------------------------------------------------------
(* get_statistics on its own: it is called on a database that holds any jobs  *)
(* update_render_job can leave there (any status with or without a duration). *)

MaxStatJobs == 4

\* Sequences over S of length at most n
RECURSIVE SeqsUpTo(_, _)
SeqsUpTo(S, n) ==
    IF n = 0 THEN {<<>>}
    ELSE LET T == SeqsUpTo(S, n - 1)
         IN  T \cup {Append(t, x) : t \in {u \in T : Len(u) = n - 1}, x \in S}

StatRows ==
    {[NewJob(1, <<900, 700, 500>>, <<117, 133, 150>>)
        EXCEPT !.status = st, !.render_duration = d] :
        st \in {"pending", "completed", "failed"},
        d \in {None} \cup {Some(x) : x \in Durations}}

StatsInit ==
    /\ \E st \in {"pending", "completed"} :
          files = <<[NewFile([dir |-> "d1", stem |-> "a"], 10, 0) EXCEPT !.status = st]>>
    /\ jobs \in SeqsUpTo(StatRows, MaxStatJobs)
    /\ now = 0
    /\ ProcInit
    /\ NoOrbit
    /\ stats = None
    /\ NoColor

\* stats = db.get_statistics()
CallGetStatistics ==
    /\ stats = None
    /\ stats' = GetStatistics(files, jobs)
    /\ UNCHANGED <<storeVars, procVars, orbitVars, colorVars>>

StatsNext == CallGetStatistics

StatsSpec == StatsInit /\ [][StatsNext]_vars

-----------------------------------------------------------------------------
(* The palette generator: rendering/color_manager.py with colorsys.  A number *)
(* is a fraction <<n, d>> in lowest terms with d > 0, and the arithmetic is   *)
(* exact: the rounding of the floating-point operations is not modelled.      *)

RECURSIVE Gcd(_, _)
Gcd(a, b) == IF b = 0 THEN a ELSE Gcd(b, a % b)
Abs(a) == IF a < 0 THEN -a ELSE a

\* n / d in lowest terms (d /= 0)
Rat(n, d) ==
    LET g == Gcd(Abs(n), Abs(d))
    IN  IF d < 0 THEN <<(-n) \div g, (-d) \div g>> ELSE <<n \div g, d \div g>>

RAdd(x, y) ==
    LET g == Gcd(x[2], y[2])
    IN  Rat(x[1] * (y[2] \div g) + y[1] * (x[2] \div g), (x[2] \div g) * y[2])
RNeg(x) == <<-x[1], x[2]>>
RSub(x, y) == RAdd(x, RNeg(y))
RMul(x, y) ==
    LET a == Rat(x[1], y[2])
        b == Rat(y[1], x[2])
    IN  <<a[1] * b[1], a[2] * b[2]>>
RDiv(x, y) == RMul(x, Rat(y[2], y[1]))
RLt(x, y) ==
    LET g == Gcd(x[2], y[2])
    IN  x[1] * (y[2] \div g) < y[1] * (x[2] \div g)
RLe(x, y) == ~RLt(y, x)
RMax(x, y) == IF RLt(x, y) THEN y ELSE x
RMin(x, y) == IF RLt(y, x) THEN y ELSE x
\* int(x) for x >= 0, and x % 1.0
RInt(x) == x[1] \div x[2]
RMod1(x) == <<x[1] % x[2], x[2]>>

Zero == <<0, 1>>
One == <<1, 1>>
Half == <<1, 2>>

\* colorsys.rgb_to_hsv(r, g, b)
RgbToHsv(rgb) ==
    LET r == rgb[1]
        g == rgb[2]
        b == rgb[3]
        maxc == RMax(r, RMax(g, b))
        minc == RMin(r, RMin(g, b))
        rangec == RSub(maxc, minc)
        v == maxc
    IN  IF minc = maxc THEN <<Zero, Zero, v>>
        ELSE LET s == RDiv(rangec, maxc)
                 rc == RDiv(RSub(maxc, r), rangec)
                 gc == RDiv(RSub(maxc, g), rangec)
                 bc == RDiv(RSub(maxc, b), rangec)
                 h == IF r = maxc THEN RSub(bc, gc)
                      ELSE IF g = maxc THEN RAdd(<<2, 1>>, RSub(rc, bc))
                      ELSE RAdd(<<4, 1>>, RSub(gc, rc))
             IN  <<RMod1(RDiv(h, <<6, 1>>)), s, v>>

\* An hsv_to_rgb with `+` for `-` in q
HsvToRgbSignSlip(hsv) ==
    LET h == hsv[1]
        s == hsv[2]
        v == hsv[3]
        i == RInt(RMul(h, <<6, 1>>))
        f == RSub(RMul(h, <<6, 1>>), <<i, 1>>)
        p == RMul(v, RSub(One, s))
        q == RMul(v, RAdd(One, RMul(s, f)))
        t == RMul(v, RSub(One, RMul(s, RSub(One, f))))
    IN  IF s = Zero THEN <<v, v, v>>
        ELSE CASE i % 6 = 0 -> <<v, t, p>>
               [] i % 6 = 1 -> <<q, v, p>>
               [] i % 6 = 2 -> <<p, v, t>>
               [] i % 6 = 3 -> <<p, q, v>>
               [] i % 6 = 4 -> <<t, p, v>>
               [] i % 6 = 5 -> <<v, p, q>>

\* colorsys.hsv_to_rgb(h, s, v), for h >= 0
HsvToRgb(hsv) ==
    LET h == hsv[1]
        s == hsv[2]
        v == hsv[3]
        i == RInt(RMul(h, <<6, 1>>))
        f == RSub(RMul(h, <<6, 1>>), <<i, 1>>)
        p == RMul(v, RSub(One, s))
        q == RMul(v, RSub(One, RMul(s, f)))
        t == RMul(v, RSub(One, RMul(s, RSub(One, f))))
    IN  IF s = Zero THEN <<v, v, v>>
        ELSE CASE i % 6 = 0 -> <<v, t, p>>
               [] i % 6 = 1 -> <<q, v, p>>
               [] i % 6 = 2 -> <<p, v, t>>
               [] i % 6 = 3 -> <<p, q, v>>
               [] i % 6 = 4 -> <<t, p, v>>
               [] i % 6 = 5 -> <<v, p, q>>

\* The profiles with a 'muted' that reaches down to dark colours
SOOTHING_PALETTES_DARK ==
    [pastel      |-> [hue_ranges |-> << <<0, 100>> >>,
                      saturation |-> <<25, 45>>, value |-> <<85, 95>>],
     muted       |-> [hue_ranges |-> << <<0, 100>> >>,
                      saturation |-> <<35, 55>>, value |-> <<40, 75>>],
     calm_blues  |-> [hue_ranges |-> << <<50, 65>> >>,
                      saturation |-> <<30, 50>>, value |-> <<70, 85>>],
     warm_earth  |-> [hue_ranges |-> << <<5, 15>>, <<85, 95>> >>,
                      saturation |-> <<40, 60>>, value |-> <<65, 80>>],
     soft_greens |-> [hue_ranges |-> << <<25, 45>> >>,
                      saturation |-> <<30, 50>>, value |-> <<70, 85>>]]

\* SOOTHING_PALETTES, in hundredths: the hue ranges, saturation and value bounds
SOOTHING_PALETTES ==
    [pastel      |-> [hue_ranges |-> << <<0, 100>> >>,
                      saturation |-> <<25, 45>>, value |-> <<85, 95>>],
     muted       |-> [hue_ranges |-> << <<0, 100>> >>,
                      saturation |-> <<35, 55>>, value |-> <<60, 75>>],
     calm_blues  |-> [hue_ranges |-> << <<50, 65>> >>,
                      saturation |-> <<30, 50>>, value |-> <<70, 85>>],
     warm_earth  |-> [hue_ranges |-> << <<5, 15>>, <<85, 95>> >>,
                      saturation |-> <<40, 60>>, value |-> <<65, 80>>],
     soft_greens |-> [hue_ranges |-> << <<25, 45>> >>,
                      saturation |-> <<30, 50>>, value |-> <<70, 85>>]]

\* Points of [a, b] (hundredths) that random.uniform(a, b) is taken to return:
\* the ends and the points that cut it in DrawSteps equal parts
DrawSteps == 2
Uniform(range) ==
    {RAdd(Rat(range[1], 100), Rat((range[2] - range[1]) * k, 100 * DrawSteps)) :
        k \in 0..DrawSteps}

\* Channels of the base colours generate_contrasting_color is called with:
\* k / ColorSteps
ColorSteps == 4
Channels == {Rat(k, ColorSteps) : k \in 0..ColorSteps}

\* generate_random_soothing_color, for the draws d
GenerateRandomSoothingColor(d) == HsvToRgb(<<d.hue, d.saturation, d.value>>)

\* A 'high' contrast that shifts the hue like the split-complementary rule
HueShiftSplit(level, rnd) == IF level = "low" THEN rnd ELSE Rat(2, 5)

\* What generate_contrasting_color adds to the hue: 0.5, random.choice([0.4,
\* 0.6]) or random.uniform(-0.1, 0.1), the draw being rnd
HueShift(level, rnd) == IF level = "high" THEN Half ELSE rnd

\* new_v and the factor of new_s for the three levels
ContrastValue(level, v) ==
    CASE level = "high"   -> IF RLt(v, Half) THEN Rat(95, 100) ELSE Rat(15, 100)
      [] level = "medium" -> IF RLt(v, Half) THEN Rat(85, 100) ELSE Rat(25, 100)
      [] OTHER            -> IF RLt(v, Half) THEN Rat(75, 100) ELSE Rat(35, 100)
SaturationFactor(level) ==
    CASE level = "high" -> Rat(5, 10) [] level = "medium" -> Rat(6, 10) [] OTHER -> Rat(7, 10)

\* generate_contrasting_color(base_color, contrast_level), the random draw of
\* the 'medium' and 'low' levels being rnd
GenerateContrastingColor(base, level, rnd) ==
    LET hsv == RgbToHsv(base)
        new_h == RMod1(RAdd(hsv[1], HueShift(level, rnd)))
        new_v == ContrastValue(level, hsv[3])
        new_s == RMax(Rat(1, 10), RMul(hsv[2], SaturationFactor(level)))
    IN  HsvToRgb(<<new_h, new_s, new_v>>)

\* rgb_to_hex: the three bytes int(c * 255)
RgbToHex(rgb) == [a \in 1..3 |-> RInt(RMul(rgb[a], <<255, 1>>))]

\* get_color_palette, for the draws d of generate_random_soothing_color
GetColorPalette(d) ==
    LET object_color == GenerateRandomSoothingColor(d)
        background_color == GenerateContrastingColor(object_color, "high", Zero)
    IN  [object_rgb |-> object_color,
         background_rgb |-> background_color,
         object_hex |-> RgbToHex(object_color),
         background_hex |-> RgbToHex(background_color)]

\* The draws of generate_random_soothing_color: random.choice of a profile and
\* of one of its hue ranges, then three random.uniform
SoothingDraws ==
    UNION {UNION {{[profile |-> name, hue |-> h, saturation |-> sat, value |-> val] :
                      h \in Uniform(SOOTHING_PALETTES[name].hue_ranges[k]),
                      sat \in Uniform(SOOTHING_PALETTES[name].saturation),
                      val \in Uniform(SOOTHING_PALETTES[name].value)} :
                  k \in 1..Len(SOOTHING_PALETTES[name].hue_ranges)} :
           name \in DOMAIN SOOTHING_PALETTES}

\* The arguments of generate_contrasting_color with the draw of its level
ContrastCalls ==
    {[base |-> <<r, g, b>>, level |-> "high", rnd |-> Zero] : r, g, b \in Channels}
    \cup {[base |-> <<r, g, b>>, level |-> "medium", rnd |-> x] :
              r, g, b \in Channels, x \in {Rat(4, 10), Rat(6, 10)}}
    \cup {[base |-> <<r, g, b>>, level |-> "low", rnd |-> x] :
              r, g, b \in Channels, x \in {Rat(-1, 10), Zero, Rat(1, 10)}}

\* One call of generate_contrasting_color or of get_color_palette
ColorInit ==
    /\ StoreInit
    /\ ProcInit
    /\ NoOrbit
    /\ stats = None
    /\ \/ cpc = "generate_contrasting_color" /\ cin \in ContrastCalls
       \/ cpc = "get_color_palette" /\ cin \in SoothingDraws
    /\ cout = None

CallGenerateContrastingColor ==
    /\ cpc = "generate_contrasting_color"
    /\ cout = None
    /\ cout' = GenerateContrastingColor(cin.base, cin.level, cin.rnd)
    /\ UNCHANGED <<cpc, cin, storeVars, procVars, orbitVars, stats>>

CallGetColorPalette ==
    /\ cpc = "get_color_palette"
    /\ cout = None
    /\ cout' = GetColorPalette(cin)
    /\ UNCHANGED <<cpc, cin, storeVars, procVars, orbitVars, stats>>

ColorNext ==
    \/ CallGenerateContrastingColor
    \/ CallGetColorPalette

ColorSpec == ColorInit /\ [][ColorNext]_vars

-----------------------------------------------------------------------------
(* Properties *)

Terminal == {"completed", "failed"}

\* The jobs of file f, and the newest of them
JobsOf(f) == {j \in 1..Len(jobs) : jobs[j].stl_file_id = f}
LatestJob(f) == CHOOSE j \in JobsOf(f) : \A k \in JobsOf(f) : k <= j

\* The job render_single_file is working on
CurrentJob == jobs[job_id[1]]

\* The collaborator steps of a job, in lifecycle order
StageOrder == <<"rendered", "composited", "audio added">>

\* C1: a job's persisted status changes only from pending, and only to completed
\* or failed; a completed or failed job keeps its status for ever.
C1_StatusChangesOnce ==
    [][\A j \in 1..Len(jobs) :
          jobs'[j].status /= jobs[j].status
            => jobs[j].status = "pending" /\ jobs'[j].status \in Terminal]_vars

\* C2: in every store state and for every existing job, update_render_job with
\* status completed leaves the owning file completed, and with status failed
\* leaves the owning file's status as it was.
C2_UpdateCascade ==
    \A j \in 1..Len(jobs), a \in UpdateArgs :
        LET f   == jobs[j].stl_file_id
            fs2 == UpdateRenderJobFiles(files, jobs, j, a)
        IN  /\ a.status = "completed" => fs2[f].status = "completed"
            /\ a.status = "failed" => fs2[f].status = files[f].status

\* C2 witness: a failed update has left a completed file completed, next to a
\* completed job.
C2_Witness ==
    \E j, k \in 1..Len(jobs) :
        /\ jobs[j].status = "failed"
        /\ files[jobs[j].stl_file_id].status = "completed"
        /\ jobs[k].status = "completed"
        /\ \E m \in 1..Len(jobs) :
              jobs[m].status = "failed" /\ files[jobs[m].stl_file_id].status = "pending"

C4_RegisterIdempotent ==
    /\ [](\A p, q \in Paths, sp, sq \in Sizes :
             Name(p) = Name(q) =>
                LET fs1 == AddStlFile(files, p, sp, now)
                    fs2 == AddStlFile(fs1, q, sq, now)
                IN  /\ AddStlFileId(files, p, sp, now) /= None
                    /\ AddStlFileId(fs1, q, sq, now) = AddStlFileId(files, p, sp, now)
                    /\ Cardinality({i \in 1..Len(fs2) : fs2[i].filename = Name(p)}) = 1)
    /\ [][\A i \in 1..Len(files) :
             Len(files') >= Len(files) /\ files'[i].filename = files[i].filename]_vars

\* C4 witness: a.stl is registered from one directory, with jobs, and the other
\* directory holds a file of the same name.
C4_Witness ==
    \E i \in 1..Len(files), q \in Paths :
        /\ Name(q) = files[i].filename
        /\ q /= files[i].filepath
        /\ Len(files) = 2
        /\ JobsOf(i) /= {}

\* C5: add_stl_file with a file name that is registered changes no row of
\* stl_files, whatever the path and the size, also for a completed file, so the
\* pending files stay the same.
C5_ReRegisterNoOp ==
    \A p \in Paths, sz \in Sizes :
        HasName(files, Name(p)) =>
            /\ AddStlFile(files, p, sz, now) = files
            /\ GetPendingFiles(AddStlFile(files, p, sz, now), None)
                 = GetPendingFiles(files, None)

\* C5 witness: a completed file is registered again from another path with
\* another size.
C5_Witness ==
    \E i \in 1..Len(files), p \in Paths, sz \in Sizes :
        /\ files[i].status = "completed"
        /\ Name(p) = files[i].filename
        /\ p /= files[i].filepath
        /\ sz /= files[i].file_size

\* C6: in process_queue every file of the fetched list gets its call of
\* render_single_file, in order, whatever the earlier files did: the calls made
\* and the rows still to come always make up the fetched list, and at the end
\* the calls made are the fetched list.
C6_BatchNotAborted ==
    /\ pc = "loop" => attempted \o queue = batch
    /\ (pc = "start" /\ cmd = "process") => attempted \o <<cur>> \o queue = batch
    /\ pc = "report" => attempted = batch

\* C6 witness: a batch of two ended after the first file failed and the second
\* was rendered.
C6_Witness ==
    /\ pc = "report"
    /\ Len(batch) = 2
    /\ Len(jobs) = 2
    /\ jobs[1].status = "failed"
    /\ jobs[2].status = "completed"
    /\ success_count = 1

\* C7: compositing starts only after the render returned success, audio-muxing
\* only after compositing succeeded, and the job is completed only after
\* audio-muxing succeeded; the stages come in order, none skipped or repeated.
C7_LifecycleOrder ==
    /\ \E n \in 0..Len(StageOrder) : stages = SubSeq(StageOrder, 1, n)
    /\ pc \in {"setup", "rendering"} => stages = <<>>
    /\ pc = "compositing" => stages = SubSeq(StageOrder, 1, 1)
    /\ pc = "audio" => stages = SubSeq(StageOrder, 1, 2)
    /\ pc \in {"cleanup", "persist", "post"} => stages = StageOrder
    /\ (job_id /= None /\ CurrentJob.status = "completed") => stages = StageOrder

\* C7 witness: a job went through all stages and is completed.
C7_Witness ==
    /\ pc = "ret"
    /\ job_id /= None
    /\ CurrentJob.status = "completed"
    /\ stages = StageOrder

\* C8 as stated: a job is failed only by an error of the rendering, compositing
\* or audio-muxing step.
C8_FailedOnlyFromThreeStages ==
    (job_id /= None /\ CurrentJob.status = "failed")
        => raisedAt \in {"rendering", "compositing", "audio"}

\* C8 amended: a job becomes failed only in the handler of the call that created
\* it, for an error of any step after its creation: preparing the render,
\* rendering, compositing, audio-muxing, removing the temporary video, or
\* removing the temporary script after the job was persisted as completed.
C8_FailedFromAnyStepAfterCreate ==
    [][\A j \in 1..Len(jobs) :
          (jobs[j].status /= "failed" /\ jobs'[j].status = "failed")
            => pc = "except" /\ job_id = Some(j) /\ raisedAt \in StepsAfterCreate]_vars

\* C8 witness: a job failed by an error while the render was being prepared.
C8_Witness ==
    /\ job_id /= None
    /\ CurrentJob.status = "failed"
    /\ raisedAt = "setup"

\* C9 as stated: after any failure in render_single_file there is a failed job of
\* that file that holds the failure text.
C9_EveryFailureRecorded ==
    (pc = "ret" /\ err /= None)
        => \E j \in 1..Len(jobs) :
              /\ files[jobs[j].stl_file_id].filename = Name(cur)
              /\ jobs[j].status = "failed"
              /\ jobs[j].error_message = err

\* C9 amended: after a failure of a step that follows create_render_job, the job
\* of this call is failed, belongs to the file and holds the failure text; a
\* failure of add_stl_file, before the job exists, leaves the call without a job.
C9_FailureAfterCreateRecorded ==
    (pc = "ret" /\ err /= None)
        => IF raisedAt = "register"
           THEN job_id = None
           ELSE /\ job_id /= None
                /\ files[CurrentJob.stl_file_id].filename = Name(cur)
                /\ CurrentJob.status = "failed"
                /\ CurrentJob.error_message = err
                /\ CurrentJob.error_message /= None

\* C9 witness: a compositing error is recorded in the job.
C9_Witness ==
    /\ pc = "ret"
    /\ raisedAt = "compositing"
    /\ job_id /= None
    /\ CurrentJob.status = "failed"
    /\ CurrentJob.error_message = Some("ffmpeg.Error")

\* C10: when render_single_file returns an output path, its job is completed
\* with an output path and a duration, the file is completed, and neither the
\* temporary video nor the temporary script is on disk.
C10_SuccessPostcondition ==
    (pc = "ret" /\ result /= None)
        => /\ job_id /= None
           /\ CurrentJob.status = "completed"
           /\ CurrentJob.output_path = result
           /\ CurrentJob.output_path /= None
           /\ CurrentJob.render_duration /= None
           /\ files[CurrentJob.stl_file_id].status = "completed"
           /\ files[CurrentJob.stl_file_id].filename = Name(cur)
           /\ disk[TempVideo(cur)] = ""
           /\ disk[ScriptName] = ""

\* C10 witness: a call returned its output video.
C10_Witness ==
    /\ pc = "ret"
    /\ result = Some(OutputVideo(cur))
    /\ disk[OutputVideo(cur)] /= ""

\* C18: for every total_frames divisible by 6 and at least 12 (750 among them),
\* the finished plan has its keyframes at exactly the frames 1, n/6, 2n/6, 3n/6,
\* 4n/6, 5n/6 and n, and the keyframe at n holds (360, 360, 360), not the sums
\* of the segment steps.
C18_KeyframesOnSixths ==
    (opc = "done" /\ total_frames % 6 = 0 /\ total_frames >= 12) =>
        /\ DOMAIN keyframes =
               {1, total_frames} \cup {(k * total_frames) \div 6 : k \in 1..5}
        /\ Cardinality(DOMAIN keyframes) = 7
        /\ keyframes[total_frames] = <<360, 360, 360>>

C18_Witness ==
    /\ opc = "done"
    /\ total_frames = 750
    /\ DOMAIN keyframes = {1, 125, 250, 375, 500, 625, 750}
    /\ keyframes[625] = <<180, 120, 120>>

\* C19: for every total_frames >= 1 the keyframe with the greatest frame number
\* of the finished plan is at total_frames and holds (360, 360, 360); no
\* keyframe lies beyond total_frames.
C19_LastKeyframePinned ==
    opc = "done" =>
        /\ total_frames \in DOMAIN keyframes
        /\ \A f \in DOMAIN keyframes : f <= total_frames
        /\ keyframes[total_frames] = <<360, 360, 360>>

C19_Witness ==
    /\ opc = "done"
    /\ total_frames = 50
    /\ 48 \in DOMAIN keyframes
    /\ keyframes[48] = <<180, 180, 180>>

\* C20: for every total_frames >= 1 the finished plan has a keyframe at frame 1
\* that holds (0, 0, 0).
C20_StartKeyframeKept ==
    opc = "done" => (1 \in DOMAIN keyframes /\ keyframes[1] = <<0, 0, 0>>)

\* Total of the known durations d of the completed jobs, counted per value of D
RECURSIVE CompletedTotal(_, _)
CompletedTotal(js, D) ==
    IF D = {} THEN 0
    ELSE LET d == CHOOSE x \in D : TRUE
         IN  d * Cardinality({j \in 1..Len(js) : /\ js[j].status = "completed"
                                                  /\ js[j].render_duration = Some(d)})
             + CompletedTotal(js, D \ {d})

\* C17: get_statistics reports an average render time of 0 when no job is
\* completed, and otherwise the number of hundredths nearest to the mean of the
\* durations of the completed jobs; pending and failed jobs do not count,
\* whatever duration they hold.
C17_AverageOverCompleted ==
    stats /= None =>
        LET n == Cardinality({j \in 1..Len(jobs) : /\ jobs[j].status = "completed"
                                                   /\ jobs[j].render_duration /= None})
            t == CompletedTotal(jobs, Durations)
            a == stats.average_render_time
        IN  /\ (\A j \in 1..Len(jobs) : jobs[j].status /= "completed") => a = 0
            /\ n = 0 => a = 0
            /\ n > 0 => /\ 2 * (100 * t - a * n) <= n
                        /\ 2 * (a * n - 100 * t) <= n

C17_Witness ==
    /\ stats /= None
    /\ stats.average_render_time = 667
    /\ \E j \in 1..Len(jobs) : jobs[j].status = "failed" /\ jobs[j].render_duration = Some(4)

\* C11: get_pending_files(n) returns at most n rows for every limit n >= 0 that
\* is supplied, 0 included; all it returns are pending rows.
C11_LimitCapsResult ==
    \A n \in {l \in Limits : l >= 0} :
        \A r \in GetPendingFiles(files, Some(n)) :
            /\ Len(r) <= n
            /\ \A k \in 1..Len(r) : files[r[k]].status = "pending"

\* The pending rows in the order they were registered (ascending id)
PendingById(fs) ==
    CHOOSE s \in Orderings({i \in 1..Len(fs) : fs[i].status = "pending"}) :
        \A m, n \in 1..Len(s) : m < n => s[m] < s[n]

FileIdOf(path) == SelectIdByName(files, Name(path))[1]

C13_CreateAddsOnePending ==
    /\ [](\A fid \in 1..Len(files), pal \in Palettes :
            LET js == CreateRenderJob(jobs, fid, pal.object_rgb, pal.background_rgb)
            IN  /\ Len(js) = Len(jobs) + 1
                /\ js[Len(js)].status = "pending"
                /\ js[Len(js)].stl_file_id = fid
                /\ \A j \in 1..Len(jobs) : js[j] = jobs[j])
    /\ [][Len(jobs') /= Len(jobs) =>
            /\ Len(jobs') = Len(jobs) + 1
            /\ jobs'[Len(jobs')].status = "pending"
            /\ \A j \in 1..Len(jobs) : jobs'[j] = jobs[j]
            /\ files' = files]_vars

C13_Witness ==
    \E i, j, k \in 1..Len(jobs) :
        /\ i < k /\ j < k
        /\ jobs[i].stl_file_id = jobs[k].stl_file_id
        /\ jobs[j].stl_file_id = jobs[k].stl_file_id
        /\ jobs[i].status = "completed"
        /\ jobs[j].status = "failed"
        /\ jobs[k].status = "pending"

\* C14: no step changes the object colour, the background colour or the file
\* of a job that exists.
C14_ColorsAndFileFixed ==
    [][\A j \in 1..Len(jobs) :
          /\ j <= Len(jobs')
          /\ jobs'[j].object_color = jobs[j].object_color
          /\ jobs'[j].background_color = jobs[j].background_color
          /\ jobs'[j].stl_file_id = jobs[j].stl_file_id]_vars

C14_Witness ==
    /\ Len(jobs) >= 2
    /\ Len(files) >= 2
    /\ jobs[1].status = "failed"
    /\ jobs[1].stl_file_id = 1
    /\ jobs[1].object_color = <<900, 700, 500>>
    /\ jobs[1].background_color = <<117, 133, 150>>
    /\ jobs[2].status = "completed"

\* C15: update_render_job with a job id the store does not hold raises an error
\* and leaves both tables as they were.
C15_UnknownJobFails ==
    Len(jobs) >= 1 =>
        \A a \in UpdateArgs :
            /\ UpdateRenderJobError(jobs, Len(jobs) + 1) /= None
            /\ UpdateRenderJobJobs(jobs, Len(jobs) + 1, a) = jobs
            /\ UpdateRenderJobFiles(files, jobs, Len(jobs) + 1, a) = files

\* C16: add_stl_file for a path that cannot be read raises to its caller and
\* writes nothing: in every state for every path, and in the step of
\* render_single_file that makes the call.
C16_UnreadableNotRegistered ==
    /\ [](\A path \in Paths :
            LET call == AddStlFileCall(files, path, FALSE, StatSize(path), now)
            IN  call.raised /= None /\ call.files = files)
    /\ [][(pc = "start" /\ raisedAt' = "register") =>
            (err' /= None /\ pc' = "except" /\ files' = files /\ jobs' = jobs)]_vars

C16_Witness ==
    /\ pc = "except"
    /\ raisedAt = "register"
    /\ err = Some("FileNotFoundError")
    /\ Len(files) >= 1

\* C21: for every total_frames >= 1 the finished plan has exactly 7 keyframes,
\* the last of them at total_frames.  (The keyframes of an F-curve are kept in
\* frame order, one per frame.)
C21_SevenKeyframes ==
    opc = "done" =>
        /\ Cardinality(DOMAIN keyframes) = 7
        /\ total_frames \in DOMAIN keyframes
        /\ \A f \in DOMAIN keyframes : f <= total_frames

\* C21 as the code has it: the keyframes are at frame 1, at the six multiples
\* of total_frames // 6 and at total_frames, the last at total_frames; these are
\* 8 frames when total_frames >= 12 is not a multiple of 6, 7 when it is, and
\* 2 to 7 frames when total_frames < 12.
C21_KeyframeFrames ==
    opc = "done" =>
        LET n == total_frames
            c == Cardinality(DOMAIN keyframes)
        IN  /\ DOMAIN keyframes = {1, n} \cup {k * (n \div 6) : k \in 1..6}
            /\ \A f \in DOMAIN keyframes : f <= n
            /\ (n >= 12 /\ n % 6 /= 0) => c = 8
            /\ (n >= 12 /\ n % 6 = 0) => c = 7
            /\ n < 12 => (2 <= c /\ c <= 7)

C21_Witness ==
    /\ opc = "done"
    /\ total_frames = 50
    /\ DOMAIN keyframes = {1, 8, 16, 24, 32, 40, 48, 50}

\* C22: for every base colour with channels in [0, 1], the colour
\* generate_contrasting_color(base, 'high') returns has the hue of base plus
\* 0.5 modulo 1, and the value 0.95 when the value of base is below 0.5 and
\* 0.15 otherwise.
C22_ComplementaryHue ==
    (cpc = "generate_contrasting_color" /\ cin.level = "high" /\ cout /= None) =>
        LET b == RgbToHsv(cin.base)
            c == RgbToHsv(cout)
        IN  /\ c[1] = RMod1(RAdd(b[1], <<1, 2>>))
            /\ RLt(b[3], <<1, 2>>) => c[3] = <<19, 20>>
            /\ RLe(<<1, 2>>, b[3]) => c[3] = <<3, 20>>

C22_Witness ==
    /\ cpc = "generate_contrasting_color"
    /\ cin.level = "high"
    /\ cin.base = << <<1, 4>>, <<0, 1>>, <<1, 2>> >>
    /\ cout /= None
    /\ RgbToHsv(cin.base)[1] = <<3, 4>>
    /\ RgbToHsv(cout)[1] = <<1, 4>>
    /\ RgbToHsv(cout)[3] = <<3, 20>>

\* C23: every channel of the object colour and of the background colour of a
\* palette lies in [0, 1], whatever the profile, the hue range and the three
\* values drawn.
C23_ChannelsInUnitInterval ==
    (cpc = "get_color_palette" /\ cout /= None) =>
        \A a \in 1..3 :
            /\ RLe(<<0, 1>>, cout.object_rgb[a]) /\ RLe(cout.object_rgb[a], <<1, 1>>)
            /\ RLe(<<0, 1>>, cout.background_rgb[a])
            /\ RLe(cout.background_rgb[a], <<1, 1>>)

C23_Witness ==
    /\ cpc = "get_color_palette"
    /\ cin.profile = "pastel"
    /\ cin.value = <<19, 20>>
    /\ cin.hue = <<1, 1>>
    /\ cout /= None
    /\ cout.object_rgb[1] = <<19, 20>>

Commands == {"scan", "process", "render", "all"}

\* C25: a command line with an unknown command, with `render` and no path, or
\* with `render` of a path that does not exist ends in sys.exit with a
\* non-zero status, and nothing is scanned, registered, created or rendered:
\* the tables, the disk and the locals of the pipeline are as they were.
C25_RejectedCommandLine ==
    /\ [][(/\ pc = "idle"
           /\ pc' /= "idle"
           /\ \/ cmd' \notin Commands
              \/ cmd' = "render" /\ (cur' = NoPath \/ ~Exists(cur'))) =>
            /\ pc' = "exit"
            /\ exit_code' /= None
            /\ exit_code'[1] /= 0
            /\ UNCHANGED <<files, jobs, disk, attempted, found, todo, batch, job_id>>]_vars
    /\ [][pc = "exit" => (pc' = "idle" /\ UNCHANGED <<files, jobs, disk>>)]_vars
    /\ [](exit_code /= None <=> pc = "exit")

C25_Witness ==
    /\ pc = "exit"
    /\ exit_code = Some(1)
    /\ cmd = "render"
    /\ cur = MissingPath
    /\ Len(files) = 1
    /\ jobs = <<>>

\* The jobs created and not yet persisted as completed or failed
InFlight == {j \in 1..Len(jobs) : jobs[j].status \notin Terminal}

\* C26: processing is strictly sequential: at every moment at most one job is
\* in flight (created, not yet persisted as completed or failed), it is the job
\* render_single_file is working on, and a job is created only when every
\* earlier job has been persisted in a terminal state.
C26_OneJobInFlight ==
    /\ [](/\ Cardinality(InFlight) <= 1
          /\ InFlight /= {} => (job_id /= None /\ InFlight = {job_id[1]})
          /\ InFlight /= {} => pc \in StepsAfterCreate \cup {"persist", "except"})
    /\ [][Len(jobs') /= Len(jobs) =>
            /\ InFlight = {}
            /\ Len(jobs') = Len(jobs) + 1
            /\ InFlight' = {Len(jobs')}]_vars

C26_Witness ==
    /\ cmd = "process"
    /\ pc = "rendering"
    /\ Len(jobs) = 2
    /\ jobs[1].status = "failed"
    /\ InFlight = {2}
    /\ Len(attempted) = 2

\* C27: scanning only registers files: while scan_stl_directory runs no job is
\* created or changed, every row of stl_files there was stays as it was
\* (status included), and every row it adds has status pending.
C27_ScanOnlyRegisters ==
    [][(pc = "scan" \/ pc' = "scan") =>
        /\ jobs' = jobs
        /\ disk' = disk
        /\ Len(files') >= Len(files)
        /\ \A i \in 1..Len(files) : files'[i] = files[i]
        /\ \A i \in (Len(files) + 1)..Len(files') : files'[i].status = "pending"]_vars

C27_Witness ==
    /\ cmd = "scan"
    /\ pc = "scan"
    /\ todo = <<>>
    /\ Len(files) = 2
    /\ files[1].status = "completed"
    /\ files[2].status = "pending"
    /\ {files[1].filepath, files[2].filepath} \subseteq found
    /\ jobs /= <<>>

\* C28: in every reachable state of the store a file has status completed if
\* and only if at least one of its jobs has status completed.
C28_CompletedIffJobCompleted ==
    \A f \in 1..Len(files) :
        files[f].status = "completed" <=>
            \E j \in JobsOf(f) : jobs[j].status = "completed"

\* C29: a file's completed status is absorbing: no step of a scan, process or
\* render command (a later failed render of the file included) takes a
\* completed file back to pending, and a batch never fetches or attempts a
\* completed file.
C29_CompletedIsAbsorbing ==
    /\ [][\A f \in 1..Len(files) :
            files[f].status = "completed" =>
                (f <= Len(files') /\ files'[f].status = "completed")]_vars
    /\ [][(pc = "fetch" /\ pc' = "loop") =>
            \A k \in 1..Len(batch') : \A f \in 1..Len(files) :
                files[f].filepath = batch'[k] => files[f].status = "pending"]_vars
    /\ []((pc = "start" /\ cmd = "process") =>
            \A f \in 1..Len(files) :
                files[f].filename = Name(cur) => files[f].status = "pending")

C29_Witness ==
    /\ cmd = "render"
    /\ pc = "ret"
    /\ Len(jobs) = 2
    /\ jobs[1].status = "completed"
    /\ jobs[2].status = "failed"
    /\ jobs[2].stl_file_id = jobs[1].stl_file_id
    /\ files[jobs[1].stl_file_id].status = "completed"

\* C30: in every reachable state of the store every file's status is pending
\* or completed, never failed, so get_statistics returns
\* total_files = completed_files + pending_files.
C30_FileStatusTwoValued ==
    /\ \A f \in 1..Len(files) : files[f].status \in {"pending", "completed"}
    /\ LET s == GetStatistics(files, jobs)
       IN  s.total_files = s.completed_files + s.pending_files

C30_Witness ==
    /\ Len(files) = 2
    /\ \E j \in 1..Len(jobs) : jobs[j].status = "failed"
    /\ GetStatistics(files, jobs).completed_files = 1
    /\ GetStatistics(files, jobs).pending_files = 1
    /\ GetStatistics(files, jobs).total_files = 2

\* How far a process_queue invocation is from its end: the rows still to
\* iterate, then the steps left in the iteration under way
StepsLeft ==
    CASE pc = "fetch"       -> 1000
      [] pc = "start"       -> 12
      [] pc = "setup"       -> 11
      [] pc = "rendering"   -> 10
      [] pc = "compositing" -> 9
      [] pc = "audio"       -> 8
      [] pc = "cleanup"     -> 7
      [] pc = "persist"     -> 6
      [] pc = "post"        -> 5
      [] pc = "except"      -> 4
      [] pc = "ret"         -> 3
      [] pc = "loop"        -> 2
      [] pc = "report"      -> 1
      [] OTHER              -> 0
Rank == 20 * Len(queue) + StepsLeft

\* C31: one process_queue invocation creates at most one job per file of the
\* pending list fetched at its start (the rows are attempted once each, in the
\* list's order, and a job is created only for the row being attempted), it
\* terminates (every step brings its end nearer), and a file whose attempt
\* failed is still pending when render_single_file returns.
C31_OneAttemptPerFile ==
    /\ []((cmd = "process" /\ pc /= "fetch") =>
            /\ \A m, n \in 1..Len(batch) : m /= n => batch[m] /= batch[n]
            /\ Len(attempted) <= Len(batch)
            /\ attempted = SubSeq(batch, 1, Len(attempted))
            /\ queue = SubSeq(batch, Len(batch) - Len(queue) + 1, Len(batch)))
    /\ [][(cmd = "process" /\ Len(jobs') /= Len(jobs)) =>
            /\ pc = "start"
            /\ Len(jobs') = Len(jobs) + 1
            /\ attempted' = Append(attempted, cur)
            /\ jobs'[Len(jobs')].stl_file_id = SelectIdByName(files', Name(cur))[1]]_vars
    /\ [][cmd = "process" => Rank' < Rank]_vars
    /\ []((cmd = "process" /\ pc = "ret" /\ result = None) =>
            \A f \in 1..Len(files) :
                files[f].filename = Name(cur) => files[f].status = "pending")

\* C32: in every palette get_color_palette returns the background colour has
\* the value (HSV) 0.15: the object colour's value is 0.60 or more in every
\* profile, so the high-contrast rule never takes its 0.95 branch.
C32_BackgroundValueFixed ==
    (cpc = "get_color_palette" /\ cout /= None) =>
        /\ RLe(<<3, 5>>, RgbToHsv(cout.object_rgb)[3])
        /\ RgbToHsv(cout.object_rgb)[3] = cin.value
        /\ ContrastValue("high", RgbToHsv(cout.object_rgb)[3]) = <<3, 20>>
        /\ RgbToHsv(cout.background_rgb)[3] = <<3, 20>>

C32_Witness ==
    /\ cpc = "get_color_palette"
    /\ cin.profile = "muted"
    /\ cin.value = <<3, 5>>
    /\ cout /= None
    /\ RgbToHsv(cout.object_rgb)[3] = <<3, 5>>
    /\ RgbToHsv(cout.background_rgb)[3] = <<3, 20>>

====
